---- MODULE Spec2Model ----
(***************************************************************************)
(* Connection lifecycle of RoomManager (src/src/services/room-manager.js)  *)
(* and the stream re-attachment wiring of the application                  *)
(* (src/src/components/voice-controls.js).                                 *)
(*                                                                         *)
(* JavaScript runs to completion between awaits, so every action below is  *)
(* one run-to-completion segment of a handler: from its entry or from the  *)
(* resumption of an await up to the next await whose completion is a       *)
(* macrotask (a timer or a network reply).                                 *)
(***************************************************************************)
EXTENDS Integers, Sequences, FiniteSets

\* ---------------------------------------------------------------- bounds
NumPeers == 2
NumVoicePeers == 1
NumHealthPeers == 1
NumRooms == 2
MaxTimers == 2
MaxPending == 1
MaxSweeps == 2
MaxTrackers == 10
NumChatPeers == 1
NumKeys == 2
NumContents == 2
MaxMessages == 2
MaxVerifying == 1
MaxStreams == 2
NumHandles == 2
NumPingPeers == 1
NumSweepPeers == 2
MaxPings == 1
MaxClock == 2

Peers == 1..NumPeers
RoomIds == 1..NumRooms
TimerIds == 1..MaxTimers

\* ------------------------------------------------------ program constants
maxReconnectionAttempts == 5
reconnectionDelay == 2000
maxReconnectionDelay == 30000
stabilityDelay == 10000
peerHealthInterval == 15000
pingTimeout == 10000
peerTimeoutThreshold == 30000
relayUrls == 5

NoRoom == 0
TheRoom == 1
NoConfig == 0
NoTimer == 0
NoPeer == -1
NoKey == 0
NoStream == 0
NoLatency == -100
NoMessage == [type |-> "none", id |-> 0, timestamp |-> 0, peer |-> NoPeer]

VARIABLES
    trystero,               \* this.trystero !== null
    room,                   \* this.room (NoRoom = null, else the handle of the session object)
    isConnected,
    isReconnecting,
    connectionStable,
    reconnectionAttempts,
    lastRoomConfig,         \* NoConfig = null, else the {roomId, password, onError} of the last join
    reconnectionTimeout,    \* handle stored in this.reconnectionTimeout (may be stale)
    stableConnectionTimer,  \* handle stored in this.stableConnectionTimer (may be stale)
    connectionHealthTimer,  \* the tracker-health interval is running
    peerHealthTimer,        \* the peer-health interval is running
    peerHealthChecks,       \* keys of the peerHealthChecks map
    reconTimers,            \* event loop: pending reconnection timeouts
    stableTimers,           \* event loop: pending stability timeouts
    conns,                  \* transport: conns[p] is the connection of peer p in the held session
    userJoins,              \* joinRoom calls of the caller suspended in the 100 ms settle delay
    cbJoins,                \* joinRoom calls of timer callbacks suspended in the 100 ms settle delay
    cbSettle,               \* timer callbacks suspended in the 200 ms settle delay
    joinPings,              \* onPeerJoin handlers awaiting room.ping(peerId), per peer
    voiceActive,            \* audioManager.localStream && audioManager.isActive (= isVoiceActive)
    wrapped,                \* voice-controls has wrapped onPeerJoinCallback
    attachTimers,           \* pending 100 ms timers that will addStream to a peer, per peer
    streamPeers,            \* transport: peers of the held session the local stream is attached to
    lastHealthCheck,        \* age in ms of each peerHealthChecks entry (Date.now() - value)
    sweeps,                 \* checkPeerHealth runs awaiting a ping: peer pinged, peers left, ms since start
    departed,               \* history: peers whose leave was reported after their latest join
    timedOut,               \* history: peers a sweep removed as unresponsive, no join reported since
    peerAudioElements,      \* keys of the peerAudioElements map (peers with an audio sink)
    thrown,                 \* the segment ended by throwing to its caller (a rejected promise or an uncaught error)
    joinedActive,           \* history: peers of the held session that joined while the local stream was active
    trackers,               \* connectionStatus component: this.trackers, the connected flag of each entry
    connectionQuality,      \* connectionStatus component: this.connectionQuality
    statusReconnecting,     \* connectionStatus component: this.isReconnecting
    peers,                  \* application: the peers map; peers[p] is NoPeer or the publicKey of p's record
    messages,               \* application: this.messages, the peerId and content of each entry
    verifying,              \* application: handleIncomingMessage calls awaiting verifyMessage
    localStream,            \* audioManager.localStream: NoStream or the id of the MediaStream object
    sessionStreams,         \* ids of the streams added to the held transport session and not removed
    appConnected,           \* pentagramApp.isConnected
    sendActions,            \* the session handle the send actions of the application were made on, NoRoom when they are null
    clock,                  \* Date.now() of the local machine
    pingsSent,              \* history: the pings handed to sendPing, with the peer and the local time of sending
    peerLatency,            \* latency of the record of each peer in the peers map of the application
    received,               \* the message the handler segment that ran last was given
    sent,                   \* the pings and pongs handed to the send actions in the segment that ran last
    sinceSweep,             \* ms since the peer-health interval was armed or last fired
    op,                     \* the handler segment that ran last
    emitted,                \* statuses (and the reconnected signal) it delivered, in order
    calls,                  \* transport and timer calls it made (and the delay it computed), in order
    recovery,               \* history: an automatic recovery of a held session is under way
    exhausted,              \* history: retry exhaustion was reported, no caller join/force since
    streamKept              \* history: the held session is a re-join made while the stream was active

vars == <<trystero, room, isConnected, isReconnecting, connectionStable,
          reconnectionAttempts, lastRoomConfig, reconnectionTimeout,
          stableConnectionTimer, connectionHealthTimer, peerHealthTimer,
          peerHealthChecks, reconTimers, stableTimers, conns,
          userJoins, cbJoins, cbSettle, joinPings, voiceActive, wrapped,
          attachTimers, streamPeers, lastHealthCheck,
          sweeps,
          departed,
          timedOut,
          peerAudioElements,
          thrown,
          joinedActive,
          trackers,
          connectionQuality,
          statusReconnecting,
          peers,
          messages,
          verifying,
          localStream,
          sessionStreams,
          appConnected,
          sendActions,
          clock,
          pingsSent,
          peerLatency,
          received,
          sent,
          sinceSweep,
          op, emitted, calls,
          recovery, exhausted, streamKept>>

\* The state as one record, so that a handler that calls another handler is
\* the composition of their effects.
St ==
    [trystero |-> trystero, room |-> room, isConnected |-> isConnected,
     isReconnecting |-> isReconnecting, connectionStable |-> connectionStable,
     reconnectionAttempts |-> reconnectionAttempts, lastRoomConfig |-> lastRoomConfig,
     reconnectionTimeout |-> reconnectionTimeout,
     stableConnectionTimer |-> stableConnectionTimer,
     connectionHealthTimer |-> connectionHealthTimer, peerHealthTimer |-> peerHealthTimer,
     peerHealthChecks |-> peerHealthChecks, reconTimers |-> reconTimers,
     stableTimers |-> stableTimers, conns |-> conns,
     userJoins |-> userJoins, cbJoins |-> cbJoins, cbSettle |-> cbSettle,
     joinPings |-> joinPings, voiceActive |-> voiceActive, wrapped |-> wrapped,
     attachTimers |-> attachTimers, streamPeers |-> streamPeers,
     lastHealthCheck |-> lastHealthCheck,
     sweeps |-> sweeps,
     departed |-> departed,
     timedOut |-> timedOut,
     peerAudioElements |-> peerAudioElements,
     thrown |-> thrown,
     joinedActive |-> joinedActive,
     trackers |-> trackers,
     connectionQuality |-> connectionQuality,
     statusReconnecting |-> statusReconnecting,
     peers |-> peers,
     messages |-> messages,
     verifying |-> verifying,
     localStream |-> localStream,
     sessionStreams |-> sessionStreams,
     appConnected |-> appConnected,
     sendActions |-> sendActions,
     clock |-> clock,
     pingsSent |-> pingsSent,
     peerLatency |-> peerLatency,
     received |-> received,
     sent |-> sent,
     sinceSweep |-> sinceSweep,
     op |-> op, emitted |-> emitted, calls |-> calls,
     recovery |-> recovery, exhausted |-> exhausted, streamKept |-> streamKept]

Commit(s) ==
    /\ trystero' = s.trystero
    /\ room' = s.room
    /\ isConnected' = s.isConnected
    /\ isReconnecting' = s.isReconnecting
    /\ connectionStable' = s.connectionStable
    /\ reconnectionAttempts' = s.reconnectionAttempts
    /\ lastRoomConfig' = s.lastRoomConfig
    /\ reconnectionTimeout' = s.reconnectionTimeout
    /\ stableConnectionTimer' = s.stableConnectionTimer
    /\ connectionHealthTimer' = s.connectionHealthTimer
    /\ peerHealthTimer' = s.peerHealthTimer
    /\ peerHealthChecks' = s.peerHealthChecks
    /\ reconTimers' = s.reconTimers
    /\ stableTimers' = s.stableTimers
    /\ conns' = s.conns
    /\ userJoins' = s.userJoins
    /\ cbJoins' = s.cbJoins
    /\ cbSettle' = s.cbSettle
    /\ joinPings' = s.joinPings
    /\ voiceActive' = s.voiceActive
    /\ wrapped' = s.wrapped
    /\ attachTimers' = s.attachTimers
    /\ streamPeers' = s.streamPeers
    /\ lastHealthCheck' = s.lastHealthCheck
    /\ sweeps' = s.sweeps
    /\ departed' = s.departed
    /\ timedOut' = s.timedOut
    /\ peerAudioElements' = s.peerAudioElements
    /\ thrown' = s.thrown
    /\ joinedActive' = s.joinedActive
    /\ trackers' = s.trackers
    /\ connectionQuality' = s.connectionQuality
    /\ statusReconnecting' = s.statusReconnecting
    /\ peers' = s.peers
    /\ messages' = s.messages
    /\ verifying' = s.verifying
    /\ localStream' = s.localStream
    /\ sessionStreams' = s.sessionStreams
    /\ appConnected' = s.appConnected
    /\ sendActions' = s.sendActions
    /\ clock' = s.clock
    /\ pingsSent' = s.pingsSent
    /\ peerLatency' = s.peerLatency
    /\ received' = s.received
    /\ sent' = s.sent
    /\ sinceSweep' = s.sinceSweep
    /\ op' = s.op
    /\ emitted' = s.emitted
    /\ calls' = s.calls
    /\ recovery' = s.recovery
    /\ exhausted' = s.exhausted
    /\ streamKept' = s.streamKept

\* Entry of a handler segment: nothing delivered or called yet.
Begin(name) == [St EXCEPT !.op = name, !.emitted = <<>>, !.calls = <<>>, !.thrown = FALSE,
                          !.received = NoMessage, !.sent = <<>>]

NoConns == [p \in Peers |-> "none"]

Init ==
    /\ trystero = FALSE
    /\ room = NoRoom
    /\ isConnected = FALSE
    /\ isReconnecting = FALSE
    /\ connectionStable = FALSE
    /\ reconnectionAttempts = 0
    /\ lastRoomConfig = NoConfig
    /\ reconnectionTimeout = NoTimer
    /\ stableConnectionTimer = NoTimer
    /\ connectionHealthTimer = FALSE
    /\ peerHealthTimer = FALSE
    /\ peerHealthChecks = {}
    /\ reconTimers = {}
    /\ stableTimers = {}
    /\ conns = NoConns
    /\ userJoins = [c \in RoomIds |-> 0]
    /\ cbJoins = [c \in RoomIds |-> 0]
    /\ cbSettle = 0
    /\ joinPings = [p \in Peers |-> 0]
    /\ voiceActive = FALSE
    /\ wrapped = FALSE
    /\ attachTimers = [p \in Peers |-> 0]
    /\ streamPeers = {}
    /\ lastHealthCheck = [p \in Peers |-> 0]
    /\ sweeps = <<>>
    /\ departed = {}
    /\ timedOut = {}
    /\ peerAudioElements = {}
    /\ thrown = FALSE
    /\ joinedActive = {}
    /\ trackers = <<>>
    /\ connectionQuality = "unknown"
    /\ statusReconnecting = FALSE
    /\ peers = [p \in Peers |-> NoPeer]
    /\ messages = <<>>
    /\ verifying = {}
    /\ localStream = NoStream
    /\ sessionStreams = {}
    /\ appConnected = FALSE
    /\ sendActions = NoRoom
    /\ clock = 0
    /\ pingsSent = {}
    /\ peerLatency = [p \in Peers |-> NoLatency]
    /\ received = NoMessage
    /\ sent = <<>>
    /\ sinceSweep = 0
    /\ op = "init"
    /\ emitted = <<>>
    /\ calls = <<>>
    /\ recovery = FALSE
    /\ exhausted = FALSE
    /\ streamKept = FALSE


\* ------------------------------------------------------------- helpers
\* The application's onConnectionStatus callback: 'connected' sets
\* isConnected, 'reconnecting' clears it, 'disconnected' clears it together
\* with the peers map and the message list; 'stable' and 'failed' only
\* change the status text.
appOnConnectionStatus(s, status) ==
    CASE status = "connected" -> [s EXCEPT !.appConnected = TRUE]
      [] status = "disconnected" ->
            [s EXCEPT !.appConnected = FALSE,
                      !.peers = [p \in Peers |-> NoPeer], !.messages = <<>>,
                      !.peerLatency = [p \in Peers |-> NoLatency]]
      [] status = "reconnecting" -> [s EXCEPT !.appConnected = FALSE]
      [] OTHER -> s

\* this.onConnectionStatusCallback(status)
Emit(s, status) == appOnConnectionStatus([s EXCEPT !.emitted = Append(@, status)], status)

Call(s, name, arg) == [s EXCEPT !.calls = Append(@, [c |-> name, arg |-> arg])]

Min(S) == CHOOSE x \in S : \A y \in S : x <= y

\* A handle the event loop / transport has not in use (one past the bound
\* when all are in use; Bounded rejects such a step).
FreeTimer(pending) == Min((1..(MaxTimers + 1)) \ pending)

\* Number of suspended calls in a table of calls per join parameters.
RECURSIVE SumTo(_, _)
SumTo(n, k) == IF k = 0 THEN 0 ELSE n[k] + SumTo(n, k - 1)

Sum(n) == SumTo(n, NumRooms)

SumPeers(n) == SumTo(n, NumPeers)

Held(s) == IF s.room = NoRoom THEN {} ELSE {s.room}

\* Which call of a teardown throws: none, room.getPeers(), every
\* connection.close(), or room.leave().
Faults == {"none", "getPeers", "close", "leave"}

NoFault == "none"

Bounded(s) ==
    /\ s.reconTimers \subseteq TimerIds
    /\ s.stableTimers \subseteq TimerIds
    /\ s.cbSettle + Sum(s.userJoins) + Sum(s.cbJoins) + SumPeers(s.joinPings) <= MaxPending
    /\ SumPeers(s.attachTimers) <= MaxTimers
    /\ Cardinality(s.sessionStreams) <= MaxStreams
    /\ Len(s.sweeps) <= MaxSweeps
    /\ Len(s.messages) <= MaxMessages
    /\ Cardinality(s.verifying) <= MaxVerifying
    /\ Cardinality(s.pingsSent) <= MaxPings

\* ------------------------------------------------- the peer health table
\* peerHealthChecks.set(p, t), with Date.now() - t = age.
healthSet(s, p, age) ==
    [s EXCEPT !.peerHealthChecks = @ \cup {p}, !.lastHealthCheck[p] = age]

healthDelete(s, p) ==
    [s EXCEPT !.peerHealthChecks = @ \ {p}, !.lastHealthCheck[p] = 0]

healthClear(s) ==
    [s EXCEPT !.peerHealthChecks = {}, !.lastHealthCheck = [p \in Peers |-> 0]]

\* ------------------------------------------------- health monitor timers
stopConnectionHealthMonitoring(s) == [s EXCEPT !.connectionHealthTimer = FALSE]

startConnectionHealthMonitoring(s) ==
    [stopConnectionHealthMonitoring(s) EXCEPT !.connectionHealthTimer = TRUE]

stopPeerHealthMonitoring(s) == [s EXCEPT !.peerHealthTimer = FALSE]

startPeerHealthMonitoring(s) ==
    [stopPeerHealthMonitoring(s) EXCEPT !.peerHealthTimer = TRUE, !.sinceSweep = 0]

\* clearTimeout(handle): cancels the timer the handle names, if it is pending.
clearReconnectionTimeout(s) ==
    [s EXCEPT !.reconTimers = @ \ {s.reconnectionTimeout}]

clearStableConnectionTimer(s) ==
    [s EXCEPT !.stableTimers = @ \ {s.stableConnectionTimer}]

\* closeAndLeave with the catch block forgetting to clear the reference.
closeAndLeave_KeepsRoomOnThrow(s, f) ==
    LET toClose == {p \in Peers : s.conns[p] = "open"}
        sa == Call(s, "close", toClose)
        sb == Call(sa, "leave", {s.room})
    IN  IF f = "getPeers" \/ f = "leave"
        THEN s
        ELSE [sb EXCEPT !.room = NoRoom, !.conns = NoConns,
                        !.streamPeers = {}, !.streamKept = FALSE,
                        !.sessionStreams = {},
                        !.joinedActive = {}]

\* The body of the try block of leaveRoom and of the final cleanup of
\* scheduleReconnection: close each peer connection that is not closed,
\* then leave; any throw of getPeers or leave goes to the catch, which
\* clears the reference.
closeAndLeave(s, f) ==
    LET toClose == {p \in Peers : s.conns[p] = "open"}
        sa == Call(s, "close", toClose)
        sb == Call(sa, "leave", {s.room})
    IN  IF f = "getPeers"
        THEN [s EXCEPT !.room = NoRoom, !.conns = NoConns,
                       !.streamPeers = {}, !.streamKept = FALSE,
                        !.sessionStreams = {},
                        !.joinedActive = {}]
        ELSE [sb EXCEPT !.room = NoRoom, !.conns = NoConns,
                        !.streamPeers = {}, !.streamKept = FALSE,
                        !.sessionStreams = {},
                        !.joinedActive = {}]

\* leaveRoom without the early return on a null session.
leaveRoom_NoGuard(s, f) ==
    LET s2 == [s EXCEPT !.room = NoRoom,
                        !.isConnected = FALSE,
                        !.connectionStable = FALSE,
                        !.isReconnecting = FALSE,
                        !.lastRoomConfig = NoConfig,
                        !.connectionHealthTimer = FALSE,
                        !.peerHealthTimer = FALSE,
                        !.peerHealthChecks = {},
                        !.lastHealthCheck = [p \in Peers |-> 0],
                        !.stableTimers = @ \ {s.stableConnectionTimer},
                        !.stableConnectionTimer = NoTimer,
                        !.reconTimers = @ \ {s.reconnectionTimeout},
                        !.reconnectionTimeout = NoTimer]
    IN  Emit(IF s.room = NoRoom THEN s2 ELSE [closeAndLeave(s, f) EXCEPT
                        !.isConnected = FALSE,
                        !.connectionStable = FALSE,
                        !.isReconnecting = FALSE,
                        !.lastRoomConfig = NoConfig,
                        !.connectionHealthTimer = FALSE,
                        !.peerHealthTimer = FALSE,
                        !.peerHealthChecks = {},
                        !.lastHealthCheck = [p \in Peers |-> 0],
                        !.stableTimers = @ \ {s.stableConnectionTimer},
                        !.stableConnectionTimer = NoTimer,
                        !.reconTimers = @ \ {s.reconnectionTimeout},
                        !.reconnectionTimeout = NoTimer], "disconnected")

leaveRoom(s, f) ==
    IF s.room = NoRoom THEN s
    ELSE
        LET s1 == closeAndLeave(s, f)
            s2 == [s1 EXCEPT !.isConnected = FALSE,
                             !.connectionStable = FALSE,
                             !.isReconnecting = FALSE,
                             !.lastRoomConfig = NoConfig]
            s3 == stopPeerHealthMonitoring(stopConnectionHealthMonitoring(s2))
            s4 == healthClear(s3)
            s5 == IF s4.stableConnectionTimer # NoTimer
                  THEN [clearStableConnectionTimer(s4) EXCEPT !.stableConnectionTimer = NoTimer]
                  ELSE s4
            s6 == IF s5.reconnectionTimeout # NoTimer
                  THEN [clearReconnectionTimeout(s5) EXCEPT !.reconnectionTimeout = NoTimer]
                  ELSE s5
        IN  Emit(s6, "disconnected")

\* ------------------------------------------------ reconnection scheduler
RECURSIVE Pow(_, _)
Pow(b, e) == IF e = 0 THEN 1 ELSE b * Pow(b, e - 1)

\* A backoff that grows by reconnectionDelay per attempt.
backoffDelay_Linear(n) == reconnectionDelay * n

\* Math.min(reconnectionDelay * Math.pow(1.5, n - 1), maxReconnectionDelay).
\* 1.5^(n-1) = 3^(n-1) / 2^(n-1) is exact in binary floating point and the
\* product is a whole number for every n the scheduler reaches
\* (n <= maxReconnectionAttempts), so the division below has no remainder.
backoffDelay(n) ==
    LET d == (reconnectionDelay * Pow(3, n - 1)) \div Pow(2, n - 1)
    IN  IF d < maxReconnectionDelay THEN d ELSE maxReconnectionDelay

\* armReconnectionTimeout without the clearTimeout of the stored handle.
armReconnectionTimeout_NoCancel(s) ==
    LET id == FreeTimer(s.reconTimers)
        s2 == [s EXCEPT !.reconTimers = @ \cup {id}, !.reconnectionTimeout = id]
    IN  Call(s2, "setTimeout", {id})

armReconnectionTimeout(s) ==
    LET s1 == IF s.reconnectionTimeout # NoTimer
              THEN Call(clearReconnectionTimeout(s), "clearTimeout",
                        s.reconTimers \cap {s.reconnectionTimeout})
              ELSE s
        id == FreeTimer(s1.reconTimers)
        s2 == [s1 EXCEPT !.reconTimers = @ \cup {id}, !.reconnectionTimeout = id]
    IN  Call(s2, "setTimeout", {id})

\* An exhaustion test that never gives up.
attemptsExhausted_Never(s) == FALSE

\* Line 600: this.reconnectionAttempts >= this.maxReconnectionAttempts.
attemptsExhausted(s) == s.reconnectionAttempts >= maxReconnectionAttempts

\* A scheduleReconnection without the early return of line 596.
scheduleReconnection_NoGuard(s, f) ==
    IF attemptsExhausted(s) THEN
        LET s1 == [s EXCEPT !.isReconnecting = FALSE]
            s2 == IF s1.room # NoRoom THEN closeAndLeave(s1, f) ELSE s1
            s3 == [s2 EXCEPT !.exhausted = TRUE, !.recovery = FALSE]
        IN  Emit(s3, "failed")
    ELSE
        LET s1 == [s EXCEPT !.reconnectionAttempts = @ + 1,
                            !.isReconnecting = TRUE]
            s2 == Call(s1, "delay", {backoffDelay(s1.reconnectionAttempts)})
        IN  armReconnectionTimeout(s2)

scheduleReconnection(s, f) ==
    IF s.isReconnecting \/ s.lastRoomConfig = NoConfig THEN s
    ELSE IF attemptsExhausted(s) THEN
        LET s1 == [s EXCEPT !.isReconnecting = FALSE]
            s2 == IF s1.room # NoRoom THEN closeAndLeave(s1, f) ELSE s1
            s3 == [s2 EXCEPT !.exhausted = TRUE, !.recovery = FALSE]
        IN  Emit(s3, "failed")
    ELSE
        LET s1 == [s EXCEPT !.reconnectionAttempts = @ + 1,
                            !.isReconnecting = TRUE]
            s2 == Call(s1, "delay", {backoffDelay(s1.reconnectionAttempts)})
        IN  armReconnectionTimeout(s2)

\* A loss that leaves the connected flag set.
markLost_KeepsConnected(s) == [s EXCEPT !.connectionStable = FALSE]

\* Lines 585-586: the session is no longer connected nor stable.
markLost(s) == [s EXCEPT !.isConnected = FALSE, !.connectionStable = FALSE]

\* handleConnectionLoss without the in-flight guard and without marking the
\* session as lost.
handleConnectionLoss_NoGuard(s, f) ==
    LET s2 == scheduleReconnection(Emit(s, "reconnecting"), f)
    IN  [s2 EXCEPT !.recovery = (s.room # NoRoom /\ s2.isReconnecting)]

handleConnectionLoss(s, f) ==
    IF s.isReconnecting THEN s
    ELSE
        LET s1 == markLost(s)
            s2 == scheduleReconnection(Emit(s1, "reconnecting"), f)
        IN  [s2 EXCEPT !.recovery = (s.room # NoRoom /\ s2.isReconnecting)]

\* ------------------------------------------------------------- joinRoom
\* Lines 109-169: the try block and its catch.  ok: the transport's joinRoom
\* returns a session (otherwise it throws).  The result's `thrown` tells
\* whether joinRoom rejects.
\* A join that keeps the attempts counter.
markJoined_KeepsAttempts(s) ==
    [s EXCEPT !.isConnected = TRUE, !.isReconnecting = FALSE]

\* Lines 127-130.
markJoined(s) ==
    [s EXCEPT !.isConnected = TRUE, !.reconnectionAttempts = 0, !.isReconnecting = FALSE]

\* A catch block that always retries.
shouldRetry_Always(s) == TRUE

\* Line 164: retry unless this was a first attempt on a session never stable.
shouldRetry(s) == s.connectionStable \/ s.reconnectionAttempts > 0

\* A catch block that leaves the reconnection flag set.
markFailed_KeepsReconnecting(s) == [s EXCEPT !.isConnected = FALSE]

\* Lines 156-157: the catch block of joinRoom clears both flags.
markFailed(s) == [s EXCEPT !.isConnected = FALSE, !.isReconnecting = FALSE]

\* A catch block that joins again at once.
retryAfterFailure_JoinsAtOnce(s, f) == Call(s, "join", Held(s))

\* Lines 163-166: the catch block of joinRoom schedules the next attempt.
retryAfterFailure(s, f) == IF shouldRetry(s) THEN scheduleReconnection(s, f) ELSE s

\* The handles a transport session object can have.
RoomHandles == 1..NumHandles

\* trystero.joinRoom returns a session object distinct from the one the
\* application's send actions were made on (the lowest such handle stands
\* for it).
NewRoom(s) == Min(RoomHandles \ {s.sendActions})

joinBody(s, cfg, ok, f) ==
    LET s0 == [s EXCEPT !.lastRoomConfig = cfg]
    IN  IF ok THEN
            LET s1 == Call(s0, "join", Held(s0))
                s2 == markJoined([s1 EXCEPT !.room = NewRoom(s1),
                                            !.conns = NoConns,
                                            !.streamPeers = {},
                                            !.sessionStreams = {},
                                            !.streamKept = FALSE,
                                            !.joinedActive = {},
                                            !.recovery = FALSE])
                s3 == startPeerHealthMonitoring(startConnectionHealthMonitoring(s2))
                id == FreeTimer(s3.stableTimers)
                s4 == [s3 EXCEPT !.stableTimers = @ \cup {id}, !.stableConnectionTimer = id]
            IN  Emit(Call(s4, "stabilityDelay", {stabilityDelay}), "connected")
        ELSE
            LET s1 == Call(s0, "join", Held(s0))
                s2 == markFailed(s1)
                s3 == Emit(s2, "failed")
                s4 == retryAfterFailure(s3, f)
            IN  [s4 EXCEPT !.thrown = TRUE]

\* Lines 102-107: an existing session is left first, unless a reconnection
\* is in flight.
MustLeaveFirst(s) == s.room # NoRoom /\ ~s.isReconnecting


\* cbJoinOutcome signalling reconnected whether or not the join succeeded.
cbJoinOutcome_SignalsAlways(s, cfg, ok, f) ==
    LET s1 == joinBody(s, cfg, ok, f)
    IN  Emit(IF ok THEN s1 ELSE scheduleReconnection(s1, f), "reconnected")

\* Lines 672-686 of the timer callback once its joinRoom has run the try
\* block: the reconnected signal on success, the next attempt on failure.
cbJoinOutcome(s, cfg, ok, f) ==
    LET s1 == joinBody(s, cfg, ok, f)
    IN  IF ok THEN [Emit(s1, "reconnected") EXCEPT !.streamKept = s.voiceActive]
        ELSE scheduleReconnection([s1 EXCEPT !.thrown = FALSE], f)

\* Lines 672-674: destructure lastRoomConfig (a TypeError when it is null,
\* which the catch turns into scheduleReconnection) and call joinRoom.
cbRejoin(s, ok, f) ==
    IF s.lastRoomConfig = NoConfig THEN scheduleReconnection(s, f)
    ELSE IF MustLeaveFirst(s)
         THEN [leaveRoom(s, f) EXCEPT !.cbJoins[s.lastRoomConfig] = @ + 1]
         ELSE cbJoinOutcome(s, s.lastRoomConfig, ok, f)

Step(s) == Bounded(s) /\ Commit(s)

\* ------------------------------------------------------ caller operations
JoinRoom(cfg, initOk, ok, f) ==
    LET b == [Begin("joinRoom") EXCEPT !.recovery = FALSE, !.exhausted = FALSE]
        s0 == [b EXCEPT !.trystero = TRUE]
    IN  IF ~b.trystero /\ ~initOk THEN Step([b EXCEPT !.thrown = TRUE])
        ELSE IF MustLeaveFirst(s0)
             THEN Step([leaveRoom(s0, f) EXCEPT !.userJoins[cfg] = @ + 1])
             ELSE Step(joinBody(s0, cfg, ok, f))

LeaveRoom(f) ==
    Step(leaveRoom([Begin("leaveRoom") EXCEPT !.recovery = FALSE], f))

\* A forceReconnection that returns quietly when nothing was joined.
noRoomConfiguration_Quiet(s) == s

\* Lines 759-761: throw new Error('No room configuration available ...').
noRoomConfiguration(s) == [s EXCEPT !.thrown = TRUE]

\* A forceReconnection that keeps the attempts used so far.
forceReconnection_KeepsAttempts(s, f) ==
    IF s.lastRoomConfig = NoConfig THEN noRoomConfiguration(s)
    ELSE handleConnectionLoss(s, f)

forceReconnection(s, f) ==
    IF s.lastRoomConfig = NoConfig THEN noRoomConfiguration(s)
    ELSE handleConnectionLoss([s EXCEPT !.reconnectionAttempts = 0], f)

ForceReconnection(f) ==
    Step(forceReconnection([Begin("forceReconnection") EXCEPT !.exhausted = FALSE], f))

\* --------------------------------------------------- timers and intervals
StableTimerFire(id) ==
    /\ id \in stableTimers
    /\ Step([Begin("stableTimer") EXCEPT !.stableTimers = @ \ {id},
                                         !.connectionStable = TRUE])

\* A loss test that does not look at the stability flag.
allTrackersLost_IgnoresStable(s, connectedTrackers) == connectedTrackers = 0

\* Lines 547-555: no tracker is connected and the session is marked stable.
allTrackersLost(s, connectedTrackers) == connectedTrackers = 0 /\ s.connectionStable

\* A ping failure that drops the peer's health entry.
pingFailed_DropsPeer(s, p) == healthDelete(Call(s, "pingFailed", {p}), p)

\* The catch blocks of lines 566-568 and 734-739: the failure is logged.
pingFailed(s, p) == Call(s, "pingFailed", {p})

\* The peers the transport lists for the held session, one of which is the
\* first key of getPeers(); NoPeer when it lists none.
FirstPeers ==
    IF \A p \in Peers : conns[p] = "none" THEN {NoPeer}
    ELSE {p \in Peers : conns[p] # "none"}

PingOutcomes == IF \A p \in Peers : conns[p] = "none" THEN {TRUE} ELSE BOOLEAN

\* Lines 557-568: the first peer of the session, if any, is pinged; the
\* handler only awaits the outcome (pong: the ping resolved) and logs a
\* failure, so its last segment is part of this one.
pingFirstPeer(s, firstPeer, pong) ==
    IF firstPeer = NoPeer \/ s.room = NoRoom \/ pong THEN s
    ELSE pingFailed(s, firstPeer)

\* One tick of the tracker-health interval.  connectedTrackers: how many of
\* the relay sockets getTrackerStatus finds open.
CheckConnectionHealth(connectedTrackers, firstPeer, pong, f) ==
    /\ connectionHealthTimer
    /\ firstPeer \in FirstPeers
    /\ LET b == Begin("checkConnectionHealth")
           b1 == Call(b, "getTrackerStatus", {connectedTrackers})
       IN  IF ~b.isConnected \/ b.room = NoRoom THEN Step(b)
           ELSE IF allTrackersLost(b1, connectedTrackers)
                THEN Step(pingFirstPeer(handleConnectionLoss(b1, f), firstPeer, pong))
                ELSE Step(pingFirstPeer(b1, firstPeer, pong))

ReconTimerFire(id, ok, f) ==
    /\ id \in reconTimers
    /\ LET b == [Begin("reconnectionTimer") EXCEPT !.reconTimers = @ \ {id}]
       IN  IF ~b.isReconnecting \/ b.lastRoomConfig = NoConfig THEN Step(b)
           ELSE IF b.room # NoRoom
                THEN Step([leaveRoom(b, f) EXCEPT !.cbSettle = @ + 1])
                ELSE Step(cbRejoin(b, ok, f))

\* The 200 ms settle delay of a timer callback is over.
CallbackSettled(ok, f) ==
    /\ cbSettle > 0
    /\ Step(cbRejoin([Begin("reconnectionSettled") EXCEPT !.cbSettle = @ - 1], ok, f))

\* The 100 ms settle delay of a joinRoom call is over.
UserJoinSettled(cfg, ok, f) ==
    /\ userJoins[cfg] > 0
    /\ Step(joinBody([Begin("joinSettled") EXCEPT !.userJoins[cfg] = @ - 1], cfg, ok, f))

CallbackJoinSettled(cfg, ok, f) ==
    /\ cbJoins[cfg] > 0
    /\ Step(cbJoinOutcome([Begin("rejoinSettled") EXCEPT !.cbJoins[cfg] = @ - 1], cfg, ok, f))

\* ------------------------------------------------------- transport events
PeerJoin(p) ==
    /\ room # NoRoom
    /\ conns[p] = "none"
    /\ LET b == [Begin("onPeerJoin") EXCEPT !.conns[p] = "open",
                                            !.departed = @ \ {p},
                                            !.timedOut = @ \ {p},
                                            !.joinedActive =
                                                IF voiceActive THEN @ \cup {p} ELSE @ \ {p},
                                            !.joinPings[p] = @ + 1]
       IN  Step(Call(healthSet(b, p, 0), "ping", {p}))

\* An onPeerJoin callback that never sends the stream.
appOnPeerJoin_NoStream(s, p) == s

\* The application's onPeerJoin callback: a fresh record without a public
\* key in the peers map and, with the stream active, a 100 ms timer that will
\* attach it.
appOnPeerJoin(s, p) ==
    LET s1 == [s EXCEPT !.peers[p] = NoKey, !.peerLatency[p] = NoLatency]
    IN  IF s1.voiceActive THEN [s1 EXCEPT !.attachTimers[p] = @ + 1] ELSE s1

\* The application's onPeerLeave callback.
appOnPeerLeave(s, p) == [s EXCEPT !.peers[p] = NoPeer, !.peerLatency[p] = NoLatency]

\* The wrapper voice-controls installs around it: the original callback,
\* then a 100 ms timer of its own while voice is active.
voiceOnPeerJoin(s, p) ==
    LET s1 == appOnPeerJoin(s, p)
    IN  IF s1.voiceActive THEN [s1 EXCEPT !.attachTimers[p] = @ + 1] ELSE s1

onPeerJoinCallback(s, p) ==
    IF s.wrapped THEN voiceOnPeerJoin(s, p) ELSE appOnPeerJoin(s, p)

\* The ping of the onPeerJoin handler resolves (pong) or rejects; the handler
\* refreshes the health entry on success and calls the registered callback.
JoinPingDone(p, pong) ==
    /\ joinPings[p] > 0
    /\ LET b == [Begin("onPeerJoinPinged") EXCEPT !.joinPings[p] = @ - 1]
           b1 == IF pong THEN healthSet(b, p, 0) ELSE b
       IN  Step(onPeerJoinCallback(b1, p))

\* A removal that leaves the audio element in place.
removePeerAudio_Kept(s, p) == s

removePeerAudio(s, p) == [s EXCEPT !.peerAudioElements = @ \ {p}]

PeerLeave(p) ==
    /\ room # NoRoom
    /\ conns[p] # "none"
    /\ LET b == [Begin("onPeerLeave") EXCEPT !.conns[p] = "none",
                                             !.departed = @ \cup {p},
                                             !.joinedActive = @ \ {p},
                                             !.streamPeers = @ \ {p}]
       IN  Step(appOnPeerLeave(removePeerAudio(healthDelete(b, p), p), p))

\* A peer connection reaches connectionState 'closed' while the transport
\* still lists it.
ConnClosed(p) ==
    /\ room # NoRoom
    /\ conns[p] = "open"
    /\ Step([Begin("connectionClosed") EXCEPT !.conns[p] = "closed"])

\* The outcomes the environment can give to the calls a segment makes from
\* the current state: no transport call is made on a null session, and the
\* library import is only attempted while it has not succeeded.
FaultsNow ==
    IF room = NoRoom THEN {NoFault}
    ELSE IF \E p \in Peers : conns[p] = "open" THEN Faults
    ELSE Faults \ {"close"}

InitOutcomes == IF trystero THEN {TRUE} ELSE BOOLEAN

\* What a tracker check can find.  checkConnectionHealth only tests the
\* number of connected trackers against zero, so none connected and all
\* connected stand for its two cases.
TrackerCounts == {0, relayUrls}

\* The lifecycle's handlers, with the transport's joinRoom returning (TRUE)
\* or throwing (FALSE) as JoinOutcomes allows, and its teardown calls
\* throwing as Fs allows.  The connectivity ping of the tracker check is
\* answered here; its failure, which changes no field of the manager, is
\* part of NextWithHealth.
Lifecycle(JoinOutcomes, Fs) ==
    \/ \E cfg \in RoomIds, initOk \in InitOutcomes, ok \in JoinOutcomes, f \in Fs :
          JoinRoom(cfg, initOk, ok, f)
    \/ \E f \in Fs : LeaveRoom(f)
    \/ \E f \in Fs : ForceReconnection(f)
    \/ \E id \in TimerIds : StableTimerFire(id)
    \/ \E n \in TrackerCounts, p \in FirstPeers, f \in Fs :
          CheckConnectionHealth(n, p, TRUE, f)
    \/ \E id \in TimerIds, ok \in JoinOutcomes, f \in Fs : ReconTimerFire(id, ok, f)
    \/ \E ok \in JoinOutcomes, f \in Fs : CallbackSettled(ok, f)
    \/ \E cfg \in RoomIds, ok \in JoinOutcomes, f \in Fs : UserJoinSettled(cfg, ok, f)
    \/ \E cfg \in RoomIds, ok \in JoinOutcomes, f \in Fs : CallbackJoinSettled(cfg, ok, f)

NextPeers ==
    \/ \E p \in Peers : PeerJoin(p)
    \/ \E p \in Peers, pong \in BOOLEAN : JoinPingDone(p, pong)
    \/ \E p \in Peers : PeerLeave(p)
    \/ \E p \in Peers : ConnClosed(p)

\* The lifecycle alone.  Peer events touch conns and peerHealthChecks only,
\* which no lifecycle branch reads, so the lifecycle's behaviours are the
\* same with and without them.
Next == Lifecycle(BOOLEAN, FaultsNow)

Spec == Init /\ [][Next]_vars

\* The lifecycle together with the transport's peer events, for a transport
\* whose joinRoom does not throw.
NextWithPeers == Lifecycle({TRUE}, FaultsNow) \/ NextPeers

SpecPeers == Init /\ [][NextWithPeers]_vars


\* ----------------------------------------------------------- status query
getConnectionStatus(s) ==
    IF s.isReconnecting THEN "reconnecting"
    ELSE IF ~s.isConnected THEN "disconnected"
    ELSE IF s.connectionStable THEN "stable" ELSE "connecting"

\* ---------------------------------------------------- peer health sweeps
\* Ages beyond the threshold are all alike to the sweep; they are kept at
\* the first multiple of the interval past it.
MaxAge == peerTimeoutThreshold + peerHealthInterval

Older(age) == IF age + peerHealthInterval > MaxAge THEN MaxAge ELSE age + peerHealthInterval

\* peerHealthInterval ms pass.
Tick ==
    /\ \/ \E p \in peerHealthChecks : lastHealthCheck[p] < MaxAge
       \/ \E i \in DOMAIN sweeps : sweeps[i].age < MaxAge
    /\ Step([Begin("clock") EXCEPT
                !.lastHealthCheck = [p \in Peers |->
                    IF p \in peerHealthChecks THEN Older(lastHealthCheck[p]) ELSE 0],
                !.sweeps = [i \in DOMAIN sweeps |->
                    [sweeps[i] EXCEPT !.age = Older(@)]]])

\* The orders in which a Map with keys S can be iterated.
Orders(S) ==
    {q \in [1..Cardinality(S) -> S] :
        \A i, j \in 1..Cardinality(S) : i # j => q[i] # q[j]}

\* The for loop of checkPeerHealth from the entry todo[1] on, up to its next
\* await: entries older than the threshold at the start of the run are
\* deleted, the first other entry is pinged (room.ping on a null session
\* throws into the catch block and the loop goes on).
RECURSIVE checkPeerHealthLoop(_, _, _)
checkPeerHealthLoop(s, todo, age) ==
    IF todo = <<>> THEN s
    ELSE LET e == Head(todo)
         IN  IF e.late
             THEN checkPeerHealthLoop(
                      [healthDelete(s, e.p) EXCEPT !.timedOut = @ \cup {e.p}],
                      Tail(todo), age)
             ELSE IF s.room = NoRoom
             THEN checkPeerHealthLoop(s, Tail(todo), age)
             ELSE [Call(s, "ping", {e.p}) EXCEPT
                      !.sweeps = Append(@, [cur |-> e.p, todo |-> Tail(todo), age |-> age,
                                            waited |-> 0])]

checkPeerHealth(s, order) ==
    IF ~s.isConnected \/ s.room = NoRoom THEN s
    ELSE checkPeerHealthLoop(s,
             [i \in DOMAIN order |->
                 [p |-> order[i],
                  late |-> s.lastHealthCheck[order[i]] > peerTimeoutThreshold]],
             0)

\* The peer-health interval fires.
PeerHealthTimerFire(order) ==
    /\ peerHealthTimer
    /\ Step(checkPeerHealth(Begin("checkPeerHealth"), order))

\* The ping a run of checkPeerHealth awaits resolves with a latency (TRUE),
\* or resolves with null or rejects (FALSE); the run stamps the entry with
\* the time it started at and goes on with its loop.
CheckPeerPinged(i, latency) ==
    /\ i \in DOMAIN sweeps
    /\ LET run == sweeps[i]
           b == [Begin("checkPeerHealthPinged") EXCEPT
                    !.sweeps = SubSeq(sweeps, 1, i - 1) \o SubSeq(sweeps, i + 1, Len(sweeps))]
           b1 == IF latency THEN healthSet(b, run.cur, run.age)
                 ELSE pingFailed(b, run.cur)
       IN  Step(checkPeerHealthLoop(b1, run.todo, run.age))

\* onPeerStream: a peer of the held session sends an audio stream.
PeerStream(p) ==
    /\ room # NoRoom
    /\ conns[p] = "open"
    /\ Step([Begin("onPeerStream") EXCEPT !.peerAudioElements = @ \cup {p}])

\* The 'ended' event of a received stream or of one of its tracks.
StreamEnded(p) ==
    /\ p \in peerAudioElements
    /\ Step(removePeerAudio(Begin("streamEnded"), p))

HealthPeers == 1..NumHealthPeers

\* One room joined and left by the caller over a transport that does not
\* throw and whose trackers stay connected, NumHealthPeers peers with their
\* audio streams, and the two health monitors as time passes.
NextWithHealth ==
    \/ JoinRoom(TheRoom, TRUE, TRUE, NoFault)
    \/ UserJoinSettled(TheRoom, TRUE, NoFault)
    \/ LeaveRoom(NoFault)
    \/ \E p \in HealthPeers : PeerJoin(p)
    \/ \E p \in HealthPeers, pong \in BOOLEAN : JoinPingDone(p, pong)
    \/ \E p \in HealthPeers : PeerLeave(p)
    \/ \E p \in HealthPeers : PeerStream(p)
    \/ \E p \in HealthPeers : StreamEnded(p)
    \/ \E order \in Orders(peerHealthChecks) : PeerHealthTimerFire(order)
    \/ \E i \in 1..MaxSweeps, latency \in BOOLEAN : CheckPeerPinged(i, latency)
    \/ \E p \in FirstPeers, pong \in PingOutcomes :
          CheckConnectionHealth(relayUrls, p, pong, NoFault)
    \/ Tick

SpecHealth == Init /\ [][NextWithHealth]_vars

\* ------------------------------------------------ sweeps in measured time
\* The grain at which time is observed; it divides the ping timeout, the
\* sweep interval and the peer timeout threshold.
TimeStep == peerHealthInterval - pingTimeout

Aged(age) == IF age + TimeStep > MaxAge THEN MaxAge ELSE age + TimeStep

\* TimeStep ms pass: no ping of a sweep is left unanswered beyond the ping
\* timeout, and the interval does not miss its time.
Advance ==
    /\ \A i \in DOMAIN sweeps : sweeps[i].waited + TimeStep <= pingTimeout
    /\ peerHealthTimer => sinceSweep + TimeStep <= peerHealthInterval
    /\ Step([Begin("advance") EXCEPT
                !.lastHealthCheck = [p \in Peers |->
                    IF p \in peerHealthChecks THEN Aged(lastHealthCheck[p]) ELSE 0],
                !.sweeps = [i \in DOMAIN sweeps |->
                    [sweeps[i] EXCEPT !.age = Aged(@), !.waited = @ + TimeStep]],
                !.sinceSweep = IF peerHealthTimer THEN @ + TimeStep ELSE 0])

\* The peer-health interval fires peerHealthInterval ms after it was armed
\* or last fired, whether or not an earlier run is still awaiting a ping.
SweepTimerFire(order) ==
    /\ peerHealthTimer
    /\ sinceSweep = peerHealthInterval
    /\ Step([checkPeerHealth(Begin("checkPeerHealth"), order) EXCEPT !.sinceSweep = 0])

SweepPeers == 1..NumSweepPeers

\* One session that is joined once, NumSweepPeers peers that join and answer every ping within
\* the ping timeout, and the peer-health interval in measured time.
NextSweep ==
    \/ room = NoRoom /\ JoinRoom(TheRoom, TRUE, TRUE, NoFault)
    \/ \E p \in SweepPeers : PeerJoin(p)
    \/ \E p \in SweepPeers : JoinPingDone(p, TRUE)
    \/ \E order \in Orders(peerHealthChecks) : SweepTimerFire(order)
    \/ \E i \in 1..MaxSweeps : CheckPeerPinged(i, TRUE)
    \/ Advance

SpecSweep == Init /\ [][NextSweep]_vars

\* ---------------------------------------------------- voice and streams
isRoomConnected(s) == s.isConnected /\ s.room # NoRoom

Present(s) == {p \in Peers : s.conns[p] # "none"}

\* An addStream that the transport never sees.
addStream_Dropped(s, targets) == s

\* RoomManager.addStream(stream, target): throws without a session, else
\* forwards to the transport, which sends the stream to the target peer, or
\* to every peer of the session when the target is null.  The stream handed
\* over is audioManager.localStream.
addStream(s, targets) ==
    IF s.room = NoRoom THEN [s EXCEPT !.thrown = TRUE]
    ELSE [Call(s, "addStream", targets) EXCEPT
             !.streamPeers = @ \cup (targets \cap Present(s)),
             !.sessionStreams = @ \cup ({s.localStream} \ {NoStream})]

\* RoomManager.removeStream(stream): nothing without a session, else the
\* transport is handed the stream object named by the caller.
removeStream(s, stream) ==
    IF s.room = NoRoom THEN s
    ELSE [Call(s, "removeStream", {stream}) EXCEPT !.sessionStreams = @ \ {stream}]

Streams == 1..MaxStreams

\* getUserMedia returns a MediaStream object distinct from every one still
\* referenced (the lowest free id stands for it).
FreshStreams(s) ==
    LET free == Streams \ (s.sessionStreams \cup {s.localStream})
    IN  {x \in free : \A y \in free : x <= y}

\* AudioManager.stopVoiceChat: the tracks are stopped, localStream = null,
\* isActive = false.
stopVoiceChat(s) == [s EXCEPT !.voiceActive = FALSE, !.localStream = NoStream]

\* voiceControls.toggleVoice: start (getUserMedia succeeded) or stop.  The
\* stop branch calls stopVoiceChat first and hands the transport what
\* audioManager.localStream holds afterwards.
ToggleVoice ==
    LET b == Begin("toggleVoice")
    IN  IF b.voiceActive
        THEN LET s0 == stopVoiceChat(b)
                 s1 == [s0 EXCEPT !.streamPeers = {},
                                  !.streamKept = FALSE, !.joinedActive = {}]
             IN  Step(IF isRoomConnected(s1) THEN removeStream(s1, s1.localStream) ELSE s1)
        ELSE \E stream \in FreshStreams(b) :
             LET s1 == [b EXCEPT !.voiceActive = TRUE, !.localStream = stream]
             IN  Step(IF isRoomConnected(s1) THEN addStream(s1, Present(s1)) ELSE s1)

\* voiceControls.switchAudioDevice: AudioManager.switchAudioDevice returns
\* false while voice is inactive or when getUserMedia rejects (ok = FALSE);
\* otherwise it replaces localStream, and the component then removes and
\* adds what audioManager.localStream holds now.
SwitchAudioDevice(ok) ==
    LET b == Begin("switchAudioDevice")
    IN  IF ~b.voiceActive \/ ~ok
        THEN Step(b)
        ELSE \E stream \in FreshStreams(b) :
             LET s1 == [b EXCEPT !.localStream = stream]
             IN  Step(IF isRoomConnected(s1)
                      THEN addStream(removeStream(s1, s1.localStream), Present(s1))
                      ELSE s1)

\* voiceControls.setupPeerJoinListener: 500 ms after init the wrapper
\* replaces the registered onPeerJoin callback.
InstallPeerJoinListener ==
    /\ ~wrapped
    /\ Step([Begin("setupPeerJoinListener") EXCEPT !.wrapped = TRUE])

\* A 100 ms attach timer fires: roomManager.addStream(localStream, peerId).
\* Without an active stream the transport is handed null and attaches nothing.
AttachTimerFire(p) ==
    /\ attachTimers[p] > 0
    /\ LET b == [Begin("attachTimer") EXCEPT !.attachTimers[p] = @ - 1]
       IN  Step(IF b.voiceActive THEN addStream(b, {p}) ELSE b)

NextVoice ==
    \/ ToggleVoice
    \/ \E ok \in BOOLEAN : SwitchAudioDevice(ok)
    \/ InstallPeerJoinListener
    \/ \E p \in Peers : AttachTimerFire(p)

VoicePeers == 1..NumVoicePeers

\* Joins, manual reconnection, the reconnection timer, peers and voice, for
\* one room, a library that loads, and a transport whose joinRoom can throw
\* on a first join but not on a re-join and whose teardown calls do not
\* throw; NumVoicePeers of the peers come and go.  No session lasts the
\* 10 s after which its stability timer fires.
NextWithVoice ==
    \/ \E ok \in (IF reconnectionAttempts = 0 THEN BOOLEAN ELSE {TRUE}) :
          JoinRoom(TheRoom, TRUE, ok, NoFault)
    \/ LeaveRoom(NoFault)
    \/ ForceReconnection(NoFault)
    \/ \E id \in TimerIds : ReconTimerFire(id, TRUE, NoFault)
    \/ CallbackSettled(TRUE, NoFault)
    \/ UserJoinSettled(TheRoom, TRUE, NoFault)
    \/ CallbackJoinSettled(TheRoom, TRUE, NoFault)
    \/ \E p \in VoicePeers : PeerJoin(p)
    \/ \E p \in VoicePeers, pong \in BOOLEAN : JoinPingDone(p, pong)
    \/ \E p \in VoicePeers : PeerLeave(p)
    \/ NextVoice

SpecVoice == Init /\ [][NextWithVoice]_vars

\* ------------------------------------------- connection status component
AppStatuses == {"disconnected", "connecting", "connected", "reconnecting", "stable"}

Qualities == {"unknown", "poor", "fair", "good", "excellent"}

\* What getTrackerStatus can return for t relay sockets of which c are open.
\* The component reads the list only through its length and the number of
\* connected entries, so one list stands for every order of the same flags.
trackerStatusList(t, c) == [i \in 1..t |-> i <= c]

TrackerLists == {trackerStatusList(t, c) : t \in 0..MaxTrackers, c \in 0..MaxTrackers}

\* this.trackers.filter(t => t.connected).length
connectedCount(list) == Cardinality({i \in DOMAIN list : list[i]})

\* A grading whose thresholds are exclusive.
assessConnectionQuality_Exclusive(s) ==
    LET c == connectedCount(s.trackers)
        t == Len(s.trackers)
    IN  IF t = 0 THEN [s EXCEPT !.connectionQuality = "unknown"]
        ELSE IF 10 * c > 8 * t THEN [s EXCEPT !.connectionQuality = "excellent"]
        ELSE IF 10 * c > 6 * t THEN [s EXCEPT !.connectionQuality = "good"]
        ELSE IF 10 * c > 3 * t THEN [s EXCEPT !.connectionQuality = "fair"]
        ELSE [s EXCEPT !.connectionQuality = "poor"]

\* ratio = connectedCount / totalCount is the double nearest to c/t, and 0.8,
\* 0.6 and 0.3 are the doubles nearest to 8/10, 6/10 and 3/10.  Rounding is
\* monotone and c/t = k/10 rounds to the literal itself, so for lists of this
\* size ratio >= 0.k holds exactly when 10 * c >= k * t.
assessConnectionQuality(s) ==
    LET c == connectedCount(s.trackers)
        t == Len(s.trackers)
    IN  IF t = 0 THEN [s EXCEPT !.connectionQuality = "unknown"]
        ELSE IF 10 * c >= 8 * t THEN [s EXCEPT !.connectionQuality = "excellent"]
        ELSE IF 10 * c >= 6 * t THEN [s EXCEPT !.connectionQuality = "good"]
        ELSE IF 10 * c >= 3 * t THEN [s EXCEPT !.connectionQuality = "fair"]
        ELSE [s EXCEPT !.connectionQuality = "poor"]

\* One tick of the component's 5 s interval.  hasManager: the application
\* object and its room manager exist; status: app.connectionStatus;
\* trackerStatus: what getTrackerStatus returns.
UpdateConnectionStatus(hasManager, status, trackerStatus) ==
    LET b == Begin("updateConnectionStatus")
    IN  IF ~hasManager
        THEN Step([b EXCEPT !.connectionQuality = "unknown", !.trackers = <<>>])
        ELSE LET b1 == [Call(b, "getTrackerStatus", {connectedCount(trackerStatus)})
                            EXCEPT !.trackers = trackerStatus]
             IN  IF status = "connected" /\ Len(trackerStatus) > 0
                 THEN Step(assessConnectionQuality(
                              Call([b1 EXCEPT !.statusReconnecting = FALSE],
                                   "assessConnectionQuality", {})))
                 ELSE IF status = "connecting"
                 THEN Step([b1 EXCEPT !.statusReconnecting = FALSE,
                                      !.connectionQuality = "poor"])
                 ELSE IF status = "reconnecting"
                 THEN Step([b1 EXCEPT !.statusReconnecting = TRUE,
                                      !.connectionQuality = "poor"])
                 ELSE IF status = "stable"
                 THEN Step([b1 EXCEPT !.statusReconnecting = FALSE,
                                      !.connectionQuality = "excellent"])
                 ELSE Step([b1 EXCEPT !.statusReconnecting = FALSE,
                                      !.connectionQuality = "unknown"])

\* The grading applied to the list the component holds.
AssessConnectionQuality ==
    Step(assessConnectionQuality(
            Call(Begin("assessConnectionQuality"), "assessConnectionQuality", {})))

NextQuality ==
    \/ \E hasManager \in BOOLEAN, status \in AppStatuses, l \in TrackerLists :
          UpdateConnectionStatus(hasManager, status, l)
    \/ AssessConnectionQuality

\* The status component alone: it reads the application's status and the
\* tracker list and writes only its own fields.
SpecQuality == Init /\ [][NextQuality]_vars


\* ------------------------------------------------------------------ chat
ChatPeers == 1..NumChatPeers
Keys == 1..NumKeys
Contents == 1..NumContents

\* A signature is what the holder of a key produced over a content.
Signatures == [key : Keys, content : Contents]

Messages == [content : Contents, signature : Signatures]

\* A verification that accepts every signature.
verifyMessage_AcceptsAll(content, signature, publicKey) == TRUE

\* ed25519.verifyAsync(signature, message, publicKey): true exactly for a
\* signature made over this content with the key that publicKey belongs to.
verifyMessage(content, signature, publicKey) ==
    signature.key = publicKey /\ signature.content = content

\* The user-info action of peer p arrives with public key k (NoKey: none).
HandleUserInfo(p, k) ==
    /\ room # NoRoom
    /\ conns[p] # "none"
    /\ LET b == Begin("handleUserInfo")
       IN  IF b.peers[p] # NoPeer THEN Step([b EXCEPT !.peers[p] = k]) ELSE Step(b)

\* The message action of peer p arrives: up to the await of verifyMessage.
HandleIncomingMessage(p, message) ==
    /\ room # NoRoom
    /\ conns[p] # "none"
    /\ LET b == Begin("handleIncomingMessage")
       IN  IF b.peers[p] = NoPeer \/ b.peers[p] = NoKey THEN Step(b)
           ELSE Step([b EXCEPT !.verifying = @ \cup
                         {[peerId |-> p, content |-> message.content,
                           signature |-> message.signature,
                           publicKey |-> b.peers[p]]}])

\* verifyMessage settles for the call v: it returns its verdict, or the
\* initialisation of the crypto library throws (ok = FALSE) and the catch
\* of handleIncomingMessage logs the error.
MessageVerified(v, ok) ==
    /\ v \in verifying
    /\ LET b == [Begin("messageVerified") EXCEPT !.verifying = @ \ {v}]
       IN  IF ~ok THEN Step(b)
           ELSE IF ~verifyMessage(v.content, v.signature, v.publicKey) THEN Step(b)
           ELSE Step([b EXCEPT !.messages =
                         Append(@, [peerId |-> v.peerId, content |-> v.content])])

\* One room joined and left by the caller over a transport that does not
\* throw, NumChatPeers peers that join, announce their keys, send messages
\* and leave.
NextChat ==
    \/ JoinRoom(TheRoom, TRUE, TRUE, NoFault)
    \/ UserJoinSettled(TheRoom, TRUE, NoFault)
    \/ LeaveRoom(NoFault)
    \/ \E p \in ChatPeers : PeerJoin(p)
    \/ \E p \in ChatPeers, pong \in BOOLEAN : JoinPingDone(p, pong)
    \/ \E p \in ChatPeers : PeerLeave(p)
    \/ \E p \in ChatPeers, k \in Keys \cup {NoKey} : HandleUserInfo(p, k)
    \/ \E p \in ChatPeers, m \in Messages : HandleIncomingMessage(p, m)
    \/ \E v \in verifying, ok \in BOOLEAN : MessageVerified(v, ok)

SpecChat == Init /\ [][NextChat]_vars


\* ------------------------------------------------------- the application
\* pentagramApp.setupCommunicationActions(room): the send actions are made
\* with room.makeAction on the session object joinRoom returned; then
\* isConnected = true.
setupCommunicationActions(s) == [s EXCEPT !.sendActions = s.room, !.appConnected = TRUE]

\* What follows `await this.roomManager.joinRoom(...)` in pentagramApp.joinRoom:
\* the actions and isConnected when it resolved, nothing of either when it
\* threw (the catch only sets the status text and returns false).
appJoined(s) == IF s.thrown THEN [s EXCEPT !.thrown = FALSE] ELSE setupCommunicationActions(s)

\* pentagramApp.joinRoom with a username and a room name entered and the
\* services ready.
AppJoinRoom(cfg, ok, f) ==
    LET b == [Begin("appJoinRoom") EXCEPT !.recovery = FALSE, !.exhausted = FALSE,
                                          !.trystero = TRUE]
    IN  IF MustLeaveFirst(b)
        THEN Step([leaveRoom(b, f) EXCEPT !.userJoins[cfg] = @ + 1])
        ELSE Step(appJoined(joinBody(b, cfg, ok, f)))

\* The 100 ms settle delay of the joinRoom call made by pentagramApp.joinRoom
\* is over.
AppJoinSettled(cfg, ok, f) ==
    /\ userJoins[cfg] > 0
    /\ Step(appJoined(joinBody([Begin("appJoinSettled") EXCEPT !.userJoins[cfg] = @ - 1],
                               cfg, ok, f)))

\* pentagramApp.leaveRoom: the manager's leaveRoom, then isConnected = false,
\* the peers map and the messages cleared and every send action nulled.
AppLeaveRoom(f) ==
    LET s1 == leaveRoom([Begin("appLeaveRoom") EXCEPT !.recovery = FALSE], f)
    IN  Step([s1 EXCEPT !.appConnected = FALSE, !.sendActions = NoRoom,
                        !.peers = [p \in Peers |-> NoPeer], !.messages = <<>>,
                        !.peerLatency = [p \in Peers |-> NoLatency]])

\* ------------------------------------------------------ pings and pongs
PingPeers == 1..NumPingPeers
PingIds == 1..MaxPings
Clocks == 0..MaxClock

Message(type, id, timestamp, peer) ==
    [type |-> type, id |-> id, timestamp |-> timestamp, peer |-> peer]

\* What a ping message can carry: an id and the sender's Date.now().
Pings == {Message("ping", id, ts, p) : id \in PingIds, ts \in Clocks, p \in PingPeers}

\* The local clock advances.
ClockTick ==
    /\ clock < MaxClock
    /\ Step([Begin("clockTick") EXCEPT !.clock = @ + 1])

\* crypto.randomUUID(): an id no earlier ping carries.
FreshPingId(s) == Cardinality({m.id : m \in s.pingsSent}) + 1

\* this.sendPing(pingData, peerId) with pingData = {id, timestamp: Date.now()}.
sendPingTo(s, id, p) ==
    LET pingData == Message("ping", id, s.clock, p)
    IN  [s EXCEPT !.sent = Append(@, pingData), !.pingsSent = @ \cup {pingData}]

\* The interval callback of startPeerPinging (the interval runs from the
\* successful joinRoom of the application to its leaveRoom, which is while
\* sendPing is not null): a ping to every peer of the peers map.
RECURSIVE pingAll(_, _)
pingAll(s, todo) ==
    IF todo = {} THEN s
    ELSE LET p == Min(todo)
         IN  pingAll(sendPingTo(s, FreshPingId(s), p), todo \ {p})

PeerPingTimerFire ==
    LET b == Begin("peerPingTimer")
        known == {p \in Peers : b.peers[p] # NoPeer}
    IN  IF b.appConnected /\ b.sendActions # NoRoom /\ known # {}
        THEN Step(pingAll(b, known))
        ELSE Step(b)

\* The pong handlePeerPing builds for a ping, on a machine whose Date.now()
\* is `now`.
pongFor(pingData, now) == Message("pong", pingData.id, now, pingData.peer)

\* pentagramApp.handlePeerPing(pingData, peerId): with sendPong not null,
\* the pong goes back to the pinger.
HandlePeerPing(pingData) ==
    LET b == [Begin("handlePeerPing") EXCEPT !.received = pingData]
    IN  IF b.sendActions # NoRoom
        THEN Step([b EXCEPT !.sent = Append(@, pongFor(pingData, b.clock))])
        ELSE Step(b)

\* roundTripTime of handlePeerPong.
roundTripTime(pongData, now) == now - pongData.timestamp

\* pentagramApp.handlePeerPong(pongData, peerId) for the pong with which the
\* peer, running this same handlePeerPing with its own clock at remoteNow,
\* answers one of the pings sent to it: the latency of a peer that is in
\* the peers map becomes roundTripTime.
HandlePeerPong(pingData, remoteNow) ==
    /\ pingData \in pingsSent
    /\ LET pongData == pongFor(pingData, remoteNow)
           p == pingData.peer
           b == [Begin("handlePeerPong") EXCEPT !.received = pongData]
       IN  IF b.peers[p] # NoPeer
           THEN Step([b EXCEPT !.peerLatency[p] = roundTripTime(pongData, b.clock)])
           ELSE Step(b)

\* The application in one room with NumPingPeers peers that come, go, ping
\* and answer pings, the local clock running up to MaxClock and the remote
\* clocks showing any time up to it.
NextPing ==
    \/ AppJoinRoom(TheRoom, TRUE, NoFault)
    \/ AppJoinSettled(TheRoom, TRUE, NoFault)
    \/ AppLeaveRoom(NoFault)
    \/ \E p \in PingPeers : PeerJoin(p)
    \/ \E p \in PingPeers : JoinPingDone(p, TRUE)
    \/ \E p \in PingPeers : PeerLeave(p)
    \/ ClockTick
    \/ PeerPingTimerFire
    \/ \E pingData \in Pings : HandlePeerPing(pingData)
    \/ \E pingData \in Pings, remoteNow \in Clocks : HandlePeerPong(pingData, remoteNow)

SpecPing == Init /\ [][NextPing]_vars

\* The application joining and leaving one room over a transport whose
\* joinRoom can throw and whose teardown calls do not, with tracker checks
\* that find all or none connected and the timers of the manager (the
\* application never calls forceReconnection).
NextApp ==
    \/ \E ok \in BOOLEAN : AppJoinRoom(TheRoom, ok, NoFault)
    \/ \E ok \in BOOLEAN : AppJoinSettled(TheRoom, ok, NoFault)
    \/ AppLeaveRoom(NoFault)
    \/ \E id \in TimerIds : StableTimerFire(id)
    \/ \E n \in TrackerCounts : CheckConnectionHealth(n, NoPeer, TRUE, NoFault)
    \/ \E id \in TimerIds, ok \in BOOLEAN : ReconTimerFire(id, ok, NoFault)
    \/ \E ok \in BOOLEAN : CallbackSettled(ok, NoFault)
    \/ \E ok \in BOOLEAN : CallbackJoinSettled(TheRoom, ok, NoFault)

SpecApp == Init /\ [][NextApp]_vars


\* ================================================================ claims
Has(log, name) == \E i \in DOMAIN log : log[i].c = name

Count(log, name) == Cardinality({i \in DOMAIN log : log[i].c = name})

Times(seq, x) == Cardinality({i \in DOMAIN seq : seq[i] = x})

\* The manager's own fields and the timers it owns.
manager == <<room, isConnected, isReconnecting, connectionStable, reconnectionAttempts,
             lastRoomConfig, reconnectionTimeout, stableConnectionTimer,
             connectionHealthTimer, peerHealthTimer, peerHealthChecks,
             reconTimers, stableTimers, userJoins, cbJoins, cbSettle>>

\* C1: at most one transport session is open at a time: whenever the
\* transport's joinRoom is called, the manager holds no session that has not
\* been left.
C1_JoinOnlyWithoutSession ==
    \A i \in DOMAIN calls : calls[i].c = "join" => calls[i].arg = {}

\* C2: automatic recovery of a held session only ends by a re-join or by the
\* terminal 'failed': while neither has happened (and the caller has issued no
\* leave or join) a reconnection timer is pending or its callback is running.
C2_RecoveryKeepsRetrying ==
    recovery => (reconTimers # {} \/ cbSettle > 0 \/ Sum(cbJoins) > 0)

\* C3: once retry exhaustion has been reported, no reconnection timer is armed
\* and no join is attempted until the caller invokes joinRoom or
\* forceReconnection.
CallerOps == {"joinRoom", "joinSettled", "forceReconnection"}

C3_NothingAfterExhaustion ==
    [][(exhausted /\ op' \notin CallerOps)
          => (~Has(calls', "setTimeout") /\ ~Has(calls', "join"))]_vars

\* C4: at most one reconnection timer is pending, and it is the one whose
\* handle is stored.
C4_SingleReconnectionTimer ==
    /\ Cardinality(reconTimers) <= 1
    /\ reconTimers \subseteq {reconnectionTimeout}

\* A schedule request found the previous timer still pending, cancelled it
\* and armed the next one.
C4_Witness ==
    /\ \E i \in DOMAIN calls : calls[i].c = "clearTimeout" /\ calls[i].arg # {}
    /\ Has(calls, "setTimeout")
    /\ Cardinality(reconTimers) = 1

\* C5: after leaveRoom() returns, no stability timer, health interval or
\* reconnection timer is pending.
C5_LeaveCancelsEveryTimer ==
    op = "leaveRoom" =>
        /\ reconTimers = {}
        /\ stableTimers = {}
        /\ ~connectionHealthTimer
        /\ ~peerHealthTimer

\* C6: leaveRoom() with no session held changes no manager state and emits no
\* status, and leaveRoom() always ends with no session held; so a second
\* leaveRoom() in a row is a no-op.
C6_LeaveIdempotent ==
    [][op' = "leaveRoom" =>
          /\ room' = NoRoom
          /\ room = NoRoom => (manager' = manager /\ emitted' = <<>> /\ calls' = <<>>)
          /\ Times(emitted', "disconnected") <= 1]_vars

\* leaveRoom() ran with no session held.
C6_Witness ==
    op = "leaveRoom" /\ emitted = <<>> /\ room = NoRoom /\ trystero

\* C7: leaveRoom() with a held session closes every peer connection that is
\* not closed before it calls the transport's leave, and whatever throws it
\* ends with the session reference cleared, the flags false, the health table
\* empty and 'disconnected' emitted exactly once.
C7_LeaveAlwaysSucceeds ==
    [][(op' = "leaveRoom" /\ room # NoRoom) =>
          /\ room' = NoRoom
          /\ ~isConnected' /\ ~connectionStable' /\ ~isReconnecting'
          /\ peerHealthChecks' = {}
          /\ emitted' = <<"disconnected">>
          /\ Has(calls', "leave") =>
                calls' = <<[c |-> "close", arg |-> {p \in Peers : conns[p] = "open"}],
                           [c |-> "leave", arg |-> {room}]>>]_vars

\* leaveRoom() closed an open peer connection and then left the session.
C7_Witness ==
    /\ op = "leaveRoom"
    /\ emitted = <<"disconnected">>
    /\ \E i \in DOMAIN calls : calls[i].c = "close" /\ calls[i].arg # {}
    /\ Has(calls, "leave")

\* C8: a tracker health check that finds zero connected trackers on a stable
\* session emits 'reconnecting' once and arms one reconnection timer; health
\* checks that run before the reconnection resolves emit and arm nothing.
C8_LossReportedOnce ==
    [][op' = "checkConnectionHealth" =>
          IF /\ isConnected /\ room # NoRoom /\ connectionStable /\ ~isReconnecting
             /\ Has(calls', "getTrackerStatus") /\ calls'[1].arg = {0}
          THEN /\ emitted' = <<"reconnecting">>
               /\ Count(calls', "setTimeout") = 1
               /\ Cardinality(reconTimers') = 1
               /\ isReconnecting'
          ELSE /\ emitted' = <<>>
               /\ ~Has(calls', "setTimeout")
               /\ manager' = manager]_vars

\* A health check on a stable session found no tracker and started the
\* reconnection.
C8_Witness ==
    op = "checkConnectionHealth" /\ emitted = <<"reconnecting">> /\ isReconnecting

\* C9: the reconnected signal fires once per successful automatic re-join,
\* right after that re-join's 'connected'; never in a caller's joinRoom and
\* never when the re-join failed.
TimerOps == {"reconnectionTimer", "reconnectionSettled", "rejoinSettled"}

C9_ReconnectedOncePerRejoin ==
    /\ Times(emitted, "reconnected") <= 1
    /\ Times(emitted, "reconnected") = 1 =>
          /\ op \in TimerOps
          /\ Len(emitted) >= 2
          /\ emitted[Len(emitted)] = "reconnected"
          /\ emitted[Len(emitted) - 1] = "connected"
    /\ (op \in TimerOps /\ Times(emitted, "connected") > 0) =>
          Times(emitted, "reconnected") = 1

\* An automatic re-join succeeded and the signal followed its 'connected'.
C9_Witness ==
    op \in TimerOps /\ emitted = <<"connected", "reconnected">>


C11_TableHoldsJoinedPeers ==
    /\ peerHealthChecks \cap departed = {}
    /\ \A p \in Peers : (conns[p] # "none" /\ p \notin timedOut) => p \in peerHealthChecks

PingedIn(log, p) == \E i \in DOMAIN log : log[i].c = "ping" /\ p \in log[i].arg

\* C12: a sweep that finds an entry older than peerTimeoutThreshold removes
\* it without pinging the peer, and no later step pings the peer until the
\* transport reports a join for it.
C12_TimedOutNotPingedAgain ==
    [][\A p \in timedOut' : ~PingedIn(calls', p)]_vars


\* C20: the peers that have an audio sink are peers joined in the current
\* session.
C20_SinksOnlyForJoinedPeers ==
    \A p \in peerAudioElements : room # NoRoom /\ conns[p] # "none"


DelayIn(log) == UNION {log[i].arg : i \in {j \in DOMAIN log : log[j].c = "delay"}}

backoffTable == <<2000, 3000, 4500, 6750, 10125>>

\* C13: the delay armed for attempt n is 2000, 3000, 4500, 6750, 10125 ms
\* for n = 1..5, is not less than the delay of attempt n - 1 and is at most
\* maxReconnectionDelay.
C13_BackoffDelays ==
    Has(calls, "delay") =>
        /\ reconnectionAttempts \in 1..maxReconnectionAttempts
        /\ DelayIn(calls) = {backoffTable[reconnectionAttempts]}
        /\ \A d \in DelayIn(calls) :
              /\ d <= maxReconnectionDelay
              /\ reconnectionAttempts > 1 => d >= backoffDelay(reconnectionAttempts - 1)

\* The last attempt is armed.
C13_Witness ==
    /\ reconnectionAttempts = maxReconnectionAttempts
    /\ DelayIn(calls) = {10125}

\* C14: forceReconnection with recorded join parameters and no reconnection
\* in flight emits 'reconnecting' and arms attempt 1 with the base delay,
\* whatever the attempts counter was.
C14_ForceRestartsBackoff ==
    [][(op' = "forceReconnection" /\ lastRoomConfig # NoConfig /\ ~isReconnecting) =>
          /\ reconnectionAttempts' = 1
          /\ isReconnecting'
          /\ emitted' = <<"reconnecting">>
          /\ DelayIn(calls') = {reconnectionDelay}
          /\ Count(calls', "setTimeout") = 1
          /\ reconnectionTimeout' \in reconTimers'
          /\ ~thrown']_vars

\* forceReconnection started the backoff with no session held.
C14_Witness ==
    /\ op = "forceReconnection"
    /\ reconnectionAttempts = 1
    /\ DelayIn(calls) = {reconnectionDelay}
    /\ room = NoRoom /\ ~isConnected

\* C15: forceReconnection without recorded join parameters throws, emits
\* nothing, makes no call and leaves the manager's fields and timers as
\* they were.
C15_ForceWithoutConfigFails ==
    [][(op' = "forceReconnection" /\ lastRoomConfig = NoConfig) =>
          /\ thrown'
          /\ emitted' = <<>>
          /\ calls' = <<>>
          /\ manager' = manager]_vars

\* forceReconnection failed after leaveRoom had cleared the parameters of a
\* join.
C15_Witness ==
    /\ op = "forceReconnection"
    /\ thrown
    /\ trystero
    /\ lastRoomConfig = NoConfig


CallerJoinOps == {"joinRoom", "joinSettled"}

\* C16: a joinRoom of the caller that succeeds leaves a held session,
\* isConnected, no reconnection in flight, the attempts counter at 0, both
\* health intervals running and a 10 s stability timer armed, and has
\* emitted 'connected' exactly once.
C16_SuccessfulJoinState ==
    (op \in CallerJoinOps /\ Has(calls, "join") /\ ~thrown) =>
        /\ room # NoRoom
        /\ isConnected /\ ~isReconnecting
        /\ reconnectionAttempts = 0
        /\ connectionHealthTimer /\ peerHealthTimer
        /\ stableConnectionTimer \in stableTimers
        /\ \E i \in DOMAIN calls : calls[i] = [c |-> "stabilityDelay", arg |-> {10000}]
        /\ Times(emitted, "connected") = 1

\* A join that first left the held session succeeded after the settle delay.
C16_Witness ==
    /\ op = "joinSettled" /\ Has(calls, "join") /\ ~thrown
    /\ emitted = <<"connected">>
    /\ room # NoRoom

LifecycleState ==
    IF exhausted THEN "failed"
    ELSE IF isReconnecting THEN "reconnecting"
    ELSE IF ~isConnected THEN "disconnected"
    ELSE IF connectionStable THEN "stable" ELSE "connected"

\* C18: getConnectionStatus reports the lifecycle state: 'connected' from a
\* successful join until the stability timer fires, then 'stable',
\* 'reconnecting' while a reconnection is in flight, 'failed' from retry
\* exhaustion until the caller joins again, 'disconnected' otherwise.
C18_StatusReportsLifecycle == getConnectionStatus(St) = LifecycleState


C21_QualityByRatio ==
    /\ connectionQuality \in Qualities
    /\ Has(calls, "assessConnectionQuality") =>
          LET t == Len(trackers)
              c == Cardinality({i \in 1..t : trackers[i]})
          IN  connectionQuality =
                 IF t = 0 THEN "unknown"
                 ELSE IF 5 * c >= 4 * t THEN "excellent"
                 ELSE IF 5 * c >= 3 * t THEN "good"
                 ELSE IF 10 * c >= 3 * t THEN "fair"
                 ELSE "poor"

C21_Witness ==
    /\ Has(calls, "assessConnectionQuality")
    /\ Len(trackers) = 5
    /\ connectedCount(trackers) = 4
    /\ connectionQuality = "excellent"

\* C22: a transport peer-leave event leaves isConnected, connectionStable,
\* isReconnecting, the attempts counter and all timers unchanged and emits no
\* connection status; only the health record and the audio sink of the peer
\* that left are removed.
C22_PeerLeaveFrame ==
    [][op' = "onPeerLeave" =>
          /\ isConnected' = isConnected
          /\ connectionStable' = connectionStable
          /\ isReconnecting' = isReconnecting
          /\ reconnectionAttempts' = reconnectionAttempts
          /\ <<reconnectionTimeout, stableConnectionTimer, connectionHealthTimer,
               peerHealthTimer, reconTimers, stableTimers>>' =
             <<reconnectionTimeout, stableConnectionTimer, connectionHealthTimer,
               peerHealthTimer, reconTimers, stableTimers>>
          /\ emitted' = <<>>
          /\ \E p \in Peers :
                /\ conns[p] # "none" /\ conns'[p] = "none"
                /\ peerHealthChecks' = peerHealthChecks \ {p}
                /\ peerAudioElements' = peerAudioElements \ {p}]_vars

C22_Witness ==
    /\ op = "onPeerLeave"
    /\ isConnected
    /\ room # NoRoom
    /\ peerHealthTimer
    /\ peerHealthChecks = {}
    /\ peerAudioElements = {}

\* C25: the application's peers map holds a record for a peer if and only if
\* the transport currently reports that peer as joined, also when the peer
\* leaves while the join handler's latency ping is in flight.  Stated with
\* the allowance that the record of a joined peer may be missing for as long
\* as a join handler of that peer still awaits its ping, and only for the
\* states in which a session is held.
C25_PeersMapMatchesTransport ==
    room # NoRoom =>
        \A p \in Peers :
            /\ peers[p] # NoPeer => conns[p] # "none"
            /\ (conns[p] # "none" /\ joinPings[p] = 0) => peers[p] # NoPeer

\* C23: an incoming chat message is appended to the message list only if its
\* sender was in the peers map with a known public key when the message
\* arrived and verifyMessage returned true for its content and signature; a
\* message from an unknown peer or with an invalid signature leaves the list
\* unchanged.
C23_OnlyVerifiedMessagesAppended ==
    [][/\ op' = "handleIncomingMessage" =>
             /\ messages' = messages
             /\ \A v \in verifying' \ verifying :
                   /\ peers[v.peerId] \in Keys
                   /\ v.publicKey = peers[v.peerId]
       /\ op' = "messageVerified" =>
             \E v \in verifying \ verifying' :
                IF /\ v.publicKey \in Keys
                   /\ v.signature.key = v.publicKey
                   /\ v.signature.content = v.content
                THEN messages' \in {messages,
                                    Append(messages, [peerId |-> v.peerId,
                                                      content |-> v.content])}
                ELSE messages' = messages
       /\ op' \in {"handleUserInfo", "onPeerJoin", "onPeerJoinPinged", "onPeerLeave"} =>
             messages' = messages]_vars

C23_Witness ==
    /\ op = "messageVerified"
    /\ Len(messages) = 2
    /\ messages[1].content # messages[2].content
    /\ \A i \in 1..2 : peers[messages[i].peerId] \in Keys

\* C24: when the reconnection timer fires while a reconnection is in flight
\* and a session is still held, the callback leaves that session, waits the
\* settle delay and then calls joinRoom with the roomId and password recorded
\* by the most recent join.  Stated for the step that follows the settle
\* delay: it calls joinRoom (which joins at once or leaves first).
C24_TimerRejoinsAfterLeave ==
    [][op' = "reconnectionSettled" =>
          Has(calls', "join") \/ cbJoins' # cbJoins]_vars

\* C26: while a reconnection is in flight (isReconnecting true),
\* handleConnectionLoss and scheduleReconnection are no-ops: they emit no
\* status and leave reconnectionAttempts and the pending timer unchanged;
\* scheduleReconnection is also a no-op when no join parameters are recorded.
\* Stated for the handlers applied to every reachable state, and for the
\* steps that call them in such a state: a forceReconnection during a
\* reconnection emits nothing and arms nothing, and no step raises the
\* attempts counter by more than one.
C26_NoOpWhileReconnecting ==
    /\ [](\A f \in Faults :
            /\ isReconnecting => /\ handleConnectionLoss(St, f) = St
                                 /\ scheduleReconnection(St, f) = St
            /\ lastRoomConfig = NoConfig => scheduleReconnection(St, f) = St)
    /\ [][/\ (op' = "forceReconnection" /\ isReconnecting /\ lastRoomConfig # NoConfig) =>
                /\ emitted' = <<>>
                /\ ~Has(calls', "setTimeout")
                /\ reconTimers' = reconTimers
                /\ reconnectionTimeout' = reconnectionTimeout
                /\ isReconnecting'
          /\ reconnectionAttempts' <= reconnectionAttempts + 1
          /\ Count(calls', "delay") <= 1]_vars

C26_Witness ==
    /\ op = "forceReconnection"
    /\ isReconnecting
    /\ reconnectionAttempts = 0
    /\ reconTimers # {}
    /\ emitted = <<>>

\* C27: the stability flag becomes true only after a grace period of
\* uninterrupted connection: in every reachable state connectionStable
\* implies isConnected and a held session, and a stability timer armed for a
\* session that has since been lost, left or replaced never sets the flag.
C27_StableImpliesConnected ==
    connectionStable => (isConnected /\ room # NoRoom)

\* C28: old timers are cancelled before a new session's timers are armed: in
\* every reachable state at most one stability timer, one tracker-health
\* interval and one peer-health interval are pending, and none of them was
\* armed for a session other than the current one (so none is pending while
\* no session is held).  The intervals are flags here, which makes "at most
\* one" of each hold by construction: both start functions stop first.
C28_TimersBelongToSession ==
    /\ Cardinality(stableTimers) <= 1
    /\ room = NoRoom => /\ stableTimers = {}
                        /\ ~connectionHealthTimer
                        /\ ~peerHealthTimer

\* What the getTrackerStatus calls of a step found: the numbers of connected
\* trackers.
TrackersFoundIn(log) ==
    UNION {log[i].arg : i \in {j \in DOMAIN log : log[j].c = "getTrackerStatus"}}

\* C29: a tracker health check that finds zero connected trackers invokes
\* handleConnectionLoss if and only if the session is currently marked
\* stable; before the stability timer has fired, zero connected trackers
\* cause no status change and no reconnection.
C29_LossOnlyWhenStable ==
    [][(op' = "checkConnectionHealth" /\ TrackersFoundIn(calls') = {0}) =>
          IF connectionStable
          THEN /\ emitted' # <<>> /\ emitted'[1] = "reconnecting"
               /\ ~isConnected' /\ ~connectionStable'
               /\ reconnectionAttempts' = reconnectionAttempts + 1
               /\ isReconnecting' /\ Has(calls', "setTimeout")
          ELSE /\ emitted' = <<>>
               /\ manager' = manager]_vars

C29_Witness ==
    /\ op = "checkConnectionHealth"
    /\ emitted = <<"reconnecting">>
    /\ isReconnecting
    /\ room # NoRoom
    /\ reconnectionAttempts = 1

FailedPings(log) ==
    UNION {log[i].arg : i \in {j \in DOMAIN log : log[j].c = "pingFailed"}}

\* C30: a failed or timed-out ping (in checkPeerHealth or in
\* checkConnectionHealth) is absorbed locally: the peer's record is neither
\* removed nor refreshed by it and no reconnection is triggered; the record
\* is removed only by a later sweep once the timeout threshold has passed.
\* (A tracker check that also found every tracker down on a stable session
\* reconnects for that reason, whatever its ping does.)
C30_FailedPingAbsorbed ==
    [][\A p \in FailedPings(calls') :
          /\ op' \in {"checkPeerHealthPinged", "checkConnectionHealth"}
          /\ (p \in peerHealthChecks') = (p \in peerHealthChecks)
          /\ lastHealthCheck'[p] = lastHealthCheck[p]
          /\ p \notin timedOut' \ timedOut
          /\ (TrackersFoundIn(calls') = {0} /\ connectionStable) \/
                /\ emitted' = <<>>
                /\ <<isConnected, isReconnecting, connectionStable,
                     reconnectionAttempts, reconTimers, room>>' =
                   <<isConnected, isReconnecting, connectionStable,
                     reconnectionAttempts, reconTimers, room>>]_vars

C30_Witness ==
    /\ op = "checkPeerHealthPinged"
    /\ FailedPings(calls) # {}
    /\ FailedPings(calls) \subseteq peerHealthChecks
    /\ \A p \in FailedPings(calls) : lastHealthCheck[p] > 0
    /\ isConnected

\* C33: in every reachable state 0 <= reconnectionAttempts <=
\* maxReconnectionAttempts; the counter is incremented only by
\* scheduleReconnection when it is below the maximum, and reset to 0 only by
\* a successful join or by forceReconnection (whose handleConnectionLoss may
\* raise it to 1 in the same step).
C33_AttemptsBounded ==
    /\ [](reconnectionAttempts \in 0..maxReconnectionAttempts)
    /\ [][reconnectionAttempts' # reconnectionAttempts =>
             \/ /\ reconnectionAttempts' = reconnectionAttempts + 1
                /\ reconnectionAttempts < maxReconnectionAttempts
                /\ Count(calls', "delay") = 1
             \/ /\ reconnectionAttempts' = 0
                /\ Has(calls', "join") /\ isConnected' /\ room' # NoRoom
             \/ /\ op' = "forceReconnection"
                /\ reconnectionAttempts' \in {0, 1}]_vars

C33_Witness ==
    /\ reconnectionAttempts = maxReconnectionAttempts
    /\ isReconnecting
    /\ reconTimers # {}

\* C34: the single-flight guard never blocks recovery permanently: in every
\* reachable state, isReconnecting true implies that a reconnection timer is
\* pending or its callback is currently executing (suspended at an await).
C34_ReconnectingHasTimer ==
    isReconnecting => (reconTimers # {} \/ cbSettle > 0 \/ Sum(cbJoins) > 0)

C34_Witness ==
    /\ isReconnecting
    /\ op = "reconnectionTimer"
    /\ thrown = FALSE
    /\ reconnectionAttempts = 2
    /\ reconnectionTimeout \in reconTimers

\* C35: the lifecycle flags are mutually consistent in every reachable
\* state: isConnected implies a held session (room not null) with recorded
\* join parameters, and isConnected and isReconnecting are never both true.
C35_FlagsConsistent ==
    /\ isConnected => (room # NoRoom /\ lastRoomConfig # NoConfig)
    /\ ~(isConnected /\ isReconnecting)

C35_Witness ==
    /\ op = "reconnectionTimer"
    /\ isConnected
    /\ ~isReconnecting
    /\ room # NoRoom
    /\ lastRoomConfig # NoConfig
    /\ Has(calls, "join")

\* The segments of a reconnection-timer callback.
CallbackOps == {"reconnectionTimer", "reconnectionSettled", "rejoinSettled"}

\* C32: every automatic re-join is made from a reconnection-timer callback:
\* scheduleReconnection never calls joinRoom directly, and between two
\* consecutive automatic join attempts there is always a reconnection-timer
\* expiry.  Stated over the steps: no step calls the transport's joinRoom
\* twice, a join outside a joinRoom of the caller is made by a segment of a
\* timer callback, every suspended callback was started by a timer expiry,
\* and a callback segment that joins is the expiry itself or uses up one
\* suspended callback.
C32_RejoinOnlyFromTimer ==
    [][/\ Count(calls', "join") <= 1
       /\ Has(calls', "join") => op' \in CallerJoinOps \cup CallbackOps
       /\ cbSettle' > cbSettle => (op' = "reconnectionTimer" /\ Count(calls', "join") = 0)
       /\ Sum(cbJoins') > Sum(cbJoins) =>
             /\ Count(calls', "join") = 0
             /\ \/ op' = "reconnectionTimer"
                \/ op' = "reconnectionSettled" /\ cbSettle' = cbSettle - 1
       /\ (op' = "reconnectionSettled" /\ Has(calls', "join")) => cbSettle' = cbSettle - 1
       /\ (op' = "rejoinSettled" /\ Has(calls', "join")) => Sum(cbJoins') = Sum(cbJoins) - 1
       /\ op' = "reconnectionTimer" => reconTimers' # reconTimers \/ Has(calls', "setTimeout")]_vars

C32_Witness ==
    /\ op = "reconnectionTimer"
    /\ Has(calls, "join")
    /\ Has(calls, "setTimeout")
    /\ reconnectionAttempts = 3
    /\ isReconnecting

\* C39: retry exhaustion is reported once: for each run of
\* maxReconnectionAttempts failed automatic re-joins, the terminal 'failed'
\* of the exhaustion branch of scheduleReconnection is delivered to the
\* status callback exactly once.  Stated over the steps: beyond the one
\* 'failed' that the catch block of joinRoom emits per failed join, a step
\* emits at most one 'failed'.
C39_ExhaustionReportedOnce ==
    [][Times(emitted', "failed") <= Count(calls', "join") + 1]_vars


\* C40: one delivery of a peer-join event arms at most one 100 ms timer
\* that will call addStream with the local stream for that peer: the
\* application's onPeerJoin callback and the wrapper around it do not both
\* attach the stream.
C40_AttachedOncePerJoin ==
    [][op' = "onPeerJoinPinged" =>
          \A p \in Peers : attachTimers'[p] <= attachTimers[p] + 1]_vars


\* C36: every removeStream forwarded to the transport names a stream that
\* was added to the held session before the call and not removed since.
C36_RemoveNamesAttachedStream ==
    [][\A i \in DOMAIN calls' :
          calls'[i].c = "removeStream" => calls'[i].arg \subseteq sessionStreams]_vars


\* C38: whenever the application considers itself connected, its send
\* actions are non-null and were made on the session the manager holds.
C38_ActionsOnCurrentSession ==
    appConnected => (sendActions # NoRoom /\ sendActions = room)


\* The ping of pingsSent that a pong answers.
PingAnswered(pongData) == CHOOSE m \in pingsSent : m.id = pongData.id

\* C31: the pong sent for an inbound ping carries the timestamp of that
\* ping, and the latency recorded when a pong arrives is the local time of
\* its arrival minus the local time at which the ping it answers was sent.
C31_LatencyIsRoundTrip ==
    [][/\ op' = "handlePeerPing" =>
             \A i \in DOMAIN sent' : sent'[i].timestamp = received'.timestamp
       /\ (op' = "handlePeerPong" /\ peers[received'.peer] # NoPeer) =>
             peerLatency'[received'.peer] = clock' - PingAnswered(received').timestamp]_vars


\* C37: while every ping is answered within the ping timeout, no sweep
\* removes a peer from peerHealthChecks as timed out.
C37_ResponsivePeerKept == timedOut = {}

====
